---- MODULE Spec2Model ----
(***************************************************************************)
(* The connection registry (RTCMap) and the connection object (RTC) of     *)
(* VU-ASE/roverrtc.  The repository holds two variants of the registry:    *)
(*   "locked"   src/src/map.go       RWMutex-guarded, rejects a live        *)
(*                                   duplicate (policy B), limit 10         *)
(*   "unlocked" src/unnamed/part_000 no lock, destroys and replaces a live  *)
(*                                   duplicate (policy A), limit 20         *)
(* Both are modelled; the variable impl says which one a behaviour runs.   *)
(*                                                                         *)
(* Single caller (Spec, SpecRTC, SpecSend): every action is one complete   *)
(* call of a method; call records the call that was made last and what it  *)
(* returned.  A call that panics (a nil dereference) or never returns (a   *)
(* Lock() that cannot be granted) is recorded with that outcome.           *)
(*                                                                         *)
(* Concurrent callers (SpecCand, SpecDestroy, SpecMap, SpecMapFair): two   *)
(* threads run the same methods statement by statement; at and local hold  *)
(* each thread's position and locals, candLock, lock and readers the       *)
(* mutexes, hist what has happened.                                        *)
(*                                                                         *)
(* The limits are the program's (10 and 20).  To reach them the registry   *)
(* is filled by background clients, and the callers under observation (two *)
(* objects, one identifier) act on the filled registry.                    *)
(***************************************************************************)
EXTENDS Naturals, Sequences, FiniteSets

\* ---------------------------------------------------------------- bounds
\* Longest candidate list an object is given.
MaxCands == 1
\* Concurrent callers: how many AddLocalCandidate calls and how many
\* GetAllLocalCandidates calls are made in all.
MaxAdds == 2
MaxGets == 2

\* ------------------------------------------------------ program constants
\* map.go: maxLength := 10
maxLength == 10
\* part_000: MAX_CLIENTS = 20
MAX_CLIENTS == 20

\* ------------------------------------------------------------- the values
Impls == {"locked", "unlocked"}

\* A nil *RTC, and the objects the observed callers hold (each made by
\* NewRTC): the one registered first and the one that replaces it.
Nil == 0
Conns == {1, 2}

\* r.Pc: nil, or a handle whose ConnectionState() is one of the library's.
NilPc == "nil"
PcStates == {"new", "connecting", "connected", "disconnected", "failed", "closed"}

\* The identifier the observed callers register their objects under, and the
\* background identifiers: other clients, which come and go in order, each
\* with an object of its own that is never attached.  They fill the registry
\* up to its limit.
ClientIds == {1}
NumFillers == MAX_CLIENTS + 1
FillId(k) == Cardinality(ClientIds) + k
FillIds == {FillId(k) : k \in 1 .. NumFillers}
Ids == ClientIds \cup FillIds
FillConn(k) == Cardinality(Conns) + k
FillConns == {FillConn(k) : k \in 1 .. NumFillers}

\* The identifiers the concurrent callers use: the client identifier and the
\* first background identifier that is not registered when they start (one
\* for each variant).
RaceIds == ClientIds \cup {FillId(maxLength), FillId(MAX_CLIENTS)}

\* The candidates the transport discovers.
Candidates == {"X"}

\* The three data channels of an object; each field is nil until the
\* signalling layer stores the negotiated channel in it.
ChannelNames == {"meta", "frame", "control"}
NilChannel == "nil"
OpenChannel == "open"

\* The threads that call concurrently (the concurrent specifications), and
\* the object they share.
Threads == {1, 2}
NoThread == 0
Shared == {1}

VARIABLES
  impl,        \* which variant of the registry this behaviour runs
  rtcMap,      \* RTCMap.rtcMap: identifier -> object, Nil where there is no entry
  lock,        \* RTCMap.lock (locked variant): "free", or "held" by a writer
  pc,          \* RTC.Pc of each object: NilPc or the handle's state
  candidates,  \* RTC.Candidates of each object
  call,        \* the last call made and its outcome: what it returned (res),
               \* how often it called Pc.Close() (closes) and, for Destroy,
               \* whether the call before it was a Destroy of the same object
               \* that closed its handle (again) and how many candidates
               \* the object had (had)
  carIds,      \* history: identifiers whose current entry was added with isCar
  registered,  \* history: the objects ever installed under each client identifier
  channels,    \* RTC.MetaChannel, FrameChannel, ControlChannel of each object
  at,          \* concurrent callers: where each thread stands in its call
  local,       \* concurrent callers: each thread's arguments and local variables
  candLock,    \* RTC.CandidatesLock of each object: the thread holding it, or 0
  readers,     \* RTCMap.lock: the threads holding it for reading
  hist         \* concurrent callers: what has happened so far (history)

\* The state of the concurrent callers, which the single-caller
\* specifications leave alone.
threadVars == <<at, local, candLock, readers, hist>>

vars ==
  <<impl, rtcMap, lock, pc, candidates, call, carIds, registered, channels,
    at, local, candLock, readers, hist>>

\* ------------------------------------------------------------ the records
\* closeErr: whether Pc.Close() returned an error; chan, sends: the channel a
\* send operation was for and how often it called Send on the transport;
\* negotiated: the channels the object had when Destroy was called.
NoCall ==
  [op |-> "none", id |-> 0, conn |-> Nil, car |-> FALSE, res |-> "none",
   closes |-> 0, again |-> FALSE, had |-> 0,
   closeErr |-> FALSE, chan |-> "none", sends |-> 0, negotiated |-> {}]

Call(op, id, c, car, res, closes) ==
  [op |-> op, id |-> id, conn |-> c, car |-> car, res |-> res,
   closes |-> closes, again |-> FALSE, had |-> 0,
   closeErr |-> FALSE, chan |-> "none", sends |-> 0, negotiated |-> {}]

\* ------------------------------------------------------------- RTC object
\* NewRTC: empty candidate list, no handle.
NewRTC ==
  [Pc |-> NilPc, Candidates |-> <<>>,
   Channels |-> [ch \in ChannelNames |-> NilChannel]]

\* The handle and the candidates of any object, background ones included.
PcOf(c) == IF c \in Conns THEN pc[c] ELSE NewRTC.Pc
CandidatesOf(c) == IF c \in Conns THEN candidates[c] ELSE NewRTC.Candidates

\* GetAllLocalCandidates: a copy of the list.
GetAllLocalCandidates(c) == [i \in 1 .. Len(CandidatesOf(c)) |-> CandidatesOf(c)[i]]

\* What an idle thread holds, and the empty history:
\*   adds      AddLocalCandidate calls made so far (the k-th call appends k)
\*   appended  appends carried out so far
\*   returned  the candidates whose AddLocalCandidate call has returned
\*   snaps     the snapshots taken by GetAllLocalCandidates, in the order
\*             taken, each with the candidates whose AddLocalCandidate call
\*             had returned when its own call started (mustSee)
NoLocal == [op |-> "none"]
\*   closes    how often Close was called on the shared object's handle
\*   nilCalls  how often a method was called on a nil handle
\*   abs       the registry's content under the identifiers the threads use,
\*             as it is if every successful Add and Remove takes effect at
\*             once (at its insert, at its delete)
\*   window    for each thread inside Get or GetAllIds: the values abs has
\*             had, for what the call asks, since the call started
NoHist ==
  [adds |-> 0, appended |-> 0, returned |-> {}, snaps |-> <<>>,
   closes |-> 0, nilCalls |-> 0,
   abs |-> [id \in RaceIds |-> Nil], window |-> [t \in Threads |-> {}]]

\* --------------------------------------------------------------- registry
\* len(m.rtcMap)
MapLen == Cardinality({id \in Ids : rtcMap[id] # Nil})

\* Get: the object under id, or nil.
Get(id) == rtcMap[id]

\* GetAllIds: the identifiers that have an entry.
GetAllIds == {id \in Ids : rtcMap[id] # Nil}

\* The limit of the variant.
Limit == IF impl = "locked" THEN maxLength ELSE MAX_CLIENTS

\* How many background identifiers are registered (they are a stack).
FillLevel == Cardinality({k \in 1 .. NumFillers : rtcMap[FillId(k)] # Nil})

Init ==
  /\ impl \in Impls
  /\ rtcMap = [id \in Ids |-> Nil]
  /\ lock = "free"
  /\ pc = [c \in Conns |-> NewRTC.Pc]
  /\ candidates = [c \in Conns |-> NewRTC.Candidates]
  /\ call = NoCall
  /\ carIds = {}
  /\ registered = [id \in ClientIds |-> {}]
  /\ channels = [c \in Conns |-> NewRTC.Channels]
  /\ at = [t \in Threads |-> "idle"]
  /\ local = [t \in Threads |-> NoLocal]
  /\ candLock = [c \in Conns |-> NoThread]
  /\ readers = {}
  /\ hist = NoHist

\* ------------------------------------------------------ the external side
\* The signalling layer attaches a peer connection to an object (r.Pc = pc).
AttachPc(c) ==
  /\ pc[c] = NilPc
  /\ pc' = [pc EXCEPT ![c] = "new"]
  /\ call' = NoCall
  /\ UNCHANGED <<impl, rtcMap, lock, candidates, carIds, registered, channels>>
  /\ UNCHANGED threadVars

\* The transport library moves an attached handle to another state; closed
\* (somebody called Pc.Close()) is final.
PcStateChange(c, s) ==
  /\ pc[c] \notin {NilPc, "closed"}
  /\ s # pc[c]
  /\ pc' = [pc EXCEPT ![c] = s]
  /\ call' = NoCall
  /\ UNCHANGED <<impl, rtcMap, lock, candidates, carIds, registered, channels>>
  /\ UNCHANGED threadVars

\* ------------------------------------------------------------ RTC methods
\* AddLocalCandidate: append under CandidatesLock.
AddLocalCandidate(c, cand) ==
  /\ Len(candidates[c]) < MaxCands
  /\ candidates' = [candidates EXCEPT ![c] = Append(@, cand)]
  /\ call' = Call("AddLocalCandidate", 0, c, FALSE, "ok", 0)
  /\ UNCHANGED <<impl, rtcMap, lock, pc, carIds, registered, channels>>
  /\ UNCHANGED threadVars

\* Faulty variants: Destroy that forgets r.Pc = nil, and Destroy that forgets
\* to empty the list.
DestroyedPc_Keep(c) == pc
DestroyedCandidates_Keep(c) == candidates

\* What Destroy leaves of the handles and of the candidate lists when it
\* goes past its nil check: Close() is called (an error is only logged), the
\* list is replaced by an empty one and Pc is set to nil.
DestroyedPc(c) == [pc EXCEPT ![c] = NilPc]
DestroyedCandidates(c) == [candidates EXCEPT ![c] = <<>>]

\* The record of a Destroy call.
DestroyCall(c, res, closes, closeErr) ==
  [Call("Destroy", 0, c, FALSE, res, closes) EXCEPT
     !.again = (call.op = "Destroy" /\ call.conn = c /\ call.res = "ok"),
     !.had = Len(candidates[c]),
     !.closeErr = closeErr,
     !.negotiated = {ch \in ChannelNames : channels[c][ch] # NilChannel}]

\* Destroy: nothing when Pc is nil; closeErr is what Pc.Close() returns.
Destroy(c, closeErr) ==
  /\ IF pc[c] = NilPc
       THEN /\ closeErr = FALSE
            /\ call' = DestroyCall(c, "noop", 0, FALSE)
            /\ UNCHANGED <<pc, candidates>>
       ELSE /\ pc' = DestroyedPc(c)
            /\ candidates' = DestroyedCandidates(c)
            /\ call' = DestroyCall(c, "ok", 1, closeErr)
  /\ UNCHANGED <<impl, rtcMap, lock, carIds, registered, channels>>
  /\ UNCHANGED threadVars

\* IsConnected: r.Pc.ConnectionState() == connected, with no nil check: on a
\* nil Pc the call dereferences a nil pointer and panics.
IsConnected(c) ==
  /\ call' = Call("IsConnected", 0, c, FALSE,
                  IF pc[c] = NilPc THEN "panic"
                  ELSE IF pc[c] = "connected" THEN "true" ELSE "false", 0)
  /\ UNCHANGED <<impl, rtcMap, lock, pc, candidates, carIds, registered, channels>>
  /\ UNCHANGED threadVars

\* The signalling layer stores a negotiated data channel in the object.
SetChannel(c, ch) ==
  /\ channels[c][ch] = NilChannel
  /\ channels' = [channels EXCEPT ![c][ch] = OpenChannel]
  /\ call' = NoCall
  /\ UNCHANGED <<impl, rtcMap, lock, pc, candidates, carIds, registered>>
  /\ UNCHANGED threadVars

\* Faulty variant: a send operation that does not test its channel for nil.
ChannelIsNil_Never(c, ch) == FALSE

\* r.XChannel == nil
ChannelIsNil(c, ch) == channels[c][ch] = NilChannel

\* The record of a send operation: res is "nil" when it returned nil without
\* sending, "error" when it returned an error, "ok" when Send returned nil.
SendCall(op, c, ch, res, sends) ==
  [Call(op, 0, c, FALSE, res, 0) EXCEPT !.chan = ch, !.sends = sends]

\* The body the three send operations share: nil is returned when the channel
\* is nil; otherwise the payload goes to the channel's Send, and what that
\* returns (sendErr) is returned.
SendOn(op, c, ch, sendErr) ==
  /\ IF ChannelIsNil(c, ch)
       THEN /\ sendErr = FALSE
            /\ call' = SendCall(op, c, ch, "nil", 0)
       ELSE call' = SendCall(op, c, ch, IF sendErr THEN "error" ELSE "ok", 1)
  /\ UNCHANGED <<impl, rtcMap, lock, pc, candidates, carIds, registered, channels>>
  /\ UNCHANGED threadVars

\* SendMetaMessage: the nil check comes first; then proto.Marshal, whose
\* error (marshalErr) is returned without a send.
SendMetaMessage(c, marshalErr, sendErr) ==
  IF ~ChannelIsNil(c, "meta") /\ marshalErr
    THEN /\ sendErr = FALSE
         /\ call' = SendCall("SendMetaMessage", c, "meta", "error", 0)
         /\ UNCHANGED <<impl, rtcMap, lock, pc, candidates, carIds, registered, channels>>
         /\ UNCHANGED threadVars
    ELSE /\ ChannelIsNil(c, "meta") => marshalErr = FALSE
         /\ SendOn("SendMetaMessage", c, "meta", sendErr)

SendFrameBytes(c, sendErr) == SendOn("SendFrameBytes", c, "frame", sendErr)

SendControlBytes(c, sendErr) == SendOn("SendControlBytes", c, "control", sendErr)

\* ------------------------------------------------------- RTCMap methods
\* delete(m.rtcMap, id)
Deleted(id) == [rtcMap EXCEPT ![id] = Nil]

\* m.rtcMap[id] = rtc
Inserted(id, c) == [rtcMap EXCEPT ![id] = c]

\* The history a successful insert leaves.
Installed(id, c, isCar) ==
  /\ carIds' = IF isCar THEN carIds \cup {id} ELSE carIds \ {id}
  /\ registered' = IF id \in ClientIds
                     THEN [registered EXCEPT ![id] = @ \cup {c}]
                     ELSE registered

\* Faulty variant: Remove without its existence check.
Absent_Never(id) == FALSE

\* conn := m.rtcMap[id]; conn == nil
Absent(id) == rtcMap[id] = Nil

\* Faulty variant: Remove that also destroys the object it removes.
Remove_Destroys(id) ==
  /\ impl = "locked" => lock = "free"
  /\ IF rtcMap[id] = Nil
       THEN /\ call' = Call("Remove", id, Nil, FALSE, "NotFound", 0)
            /\ UNCHANGED <<rtcMap, carIds, pc, candidates>>
       ELSE /\ rtcMap' = [rtcMap EXCEPT ![id] = Nil]
            /\ carIds' = carIds \ {id}
            /\ pc' = [c \in Conns |-> IF c = rtcMap[id] THEN NilPc ELSE pc[c]]
            /\ candidates' = [c \in Conns |-> IF c = rtcMap[id] THEN <<>> ELSE candidates[c]]
            /\ call' = Call("Remove", id, rtcMap[id], FALSE, "ok", 0)
  /\ UNCHANGED <<impl, lock, registered, channels>>
  /\ UNCHANGED threadVars

\* Remove: an error when there is no entry, else the entry is deleted (conn
\* is the object found).  The locked variant takes the write lock first.
Remove(id) ==
  /\ impl = "locked" => lock = "free"
  /\ IF Absent(id)
       THEN /\ call' = Call("Remove", id, Nil, FALSE, "NotFound", 0)
            /\ UNCHANGED <<rtcMap, carIds>>
       ELSE /\ rtcMap' = Deleted(id)
            /\ carIds' = carIds \ {id}
            /\ call' = Call("Remove", id, rtcMap[id], FALSE, "ok", 0)
  /\ UNCHANGED <<impl, lock, pc, candidates, registered, channels>>
  /\ UNCHANGED threadVars

\* Faulty variants of the capacity checks: a limit that is one too large, and
\* a count that leaves out the entries added with isCar.
FullLocked_OffByOne(isCar) == MapLen > maxLength /\ ~isCar
FullUnlocked_NonCarOnly(isCar) ==
  Cardinality(GetAllIds \ carIds) >= MAX_CLIENTS /\ ~isCar

\* The capacity checks: len(m.rtcMap) >= limit && !isCar.
FullLocked(isCar) == MapLen >= maxLength /\ ~isCar
FullUnlocked(isCar) == MapLen >= MAX_CLIENTS /\ ~isCar

\* Faulty variant: only a connected entry counts as active.
Active_OnlyConnected(e) == PcOf(e) = "connected"

\* The test both variants make of an existing entry: its state is neither
\* closed nor disconnected.
Active(e) == PcOf(e) # "closed" /\ PcOf(e) # "disconnected"

\* Add, locked variant (policy B).  ConnectionState() on a nil Pc is a nil
\* dereference; the deferred Unlock still runs.  For a stale entry Add calls
\* m.Remove while it holds the write lock: Remove's Lock() never returns, and
\* the lock stays held.
AddLocked(id, c, isCar) ==
  /\ impl = "locked"
  /\ lock = "free"
  /\ IF FullLocked(isCar)
       THEN /\ call' = Call("Add", id, c, isCar, "CapacityExceeded", 0)
            /\ UNCHANGED <<rtcMap, lock, carIds, registered>>
       ELSE IF rtcMap[id] # Nil /\ PcOf(rtcMap[id]) = NilPc
       THEN /\ call' = Call("Add", id, c, isCar, "panic", 0)
            /\ UNCHANGED <<rtcMap, lock, carIds, registered>>
       ELSE IF rtcMap[id] # Nil /\ Active(rtcMap[id])
       THEN /\ call' = Call("Add", id, c, isCar, "DuplicateConnection", 0)
            /\ UNCHANGED <<rtcMap, lock, carIds, registered>>
       ELSE IF rtcMap[id] # Nil
       THEN /\ lock' = "held"
            /\ call' = Call("Add", id, c, isCar, "blocked", 0)
            /\ UNCHANGED <<rtcMap, carIds, registered>>
       ELSE /\ rtcMap' = Inserted(id, c)
            /\ Installed(id, c, isCar)
            /\ call' = Call("Add", id, c, isCar, "ok", 0)
            /\ UNCHANGED lock
  /\ UNCHANGED <<impl, pc, candidates, channels>>
  /\ UNCHANGED threadVars

\* Add, unlocked variant (policy A): a live entry is destroyed, any existing
\* entry is removed, and the new object is stored.
AddUnlocked(id, c, isCar) ==
  /\ impl = "unlocked"
  /\ IF FullUnlocked(isCar)
       THEN /\ call' = Call("Add", id, c, isCar, "CapacityExceeded", 0)
            /\ UNCHANGED <<rtcMap, pc, candidates, carIds, registered>>
       ELSE IF rtcMap[id] # Nil /\ PcOf(rtcMap[id]) = NilPc
       THEN /\ call' = Call("Add", id, c, isCar, "panic", 0)
            /\ UNCHANGED <<rtcMap, pc, candidates, carIds, registered>>
       ELSE IF rtcMap[id] # Nil /\ Active(rtcMap[id])
       THEN /\ pc' = DestroyedPc(rtcMap[id])
            /\ candidates' = DestroyedCandidates(rtcMap[id])
            /\ rtcMap' = Inserted(id, c)
            /\ Installed(id, c, isCar)
            /\ call' = Call("Add", id, c, isCar, "ok", 1)
       ELSE /\ rtcMap' = Inserted(id, c)
            /\ Installed(id, c, isCar)
            /\ call' = Call("Add", id, c, isCar, "ok", 0)
            /\ UNCHANGED <<pc, candidates>>
  /\ UNCHANGED <<impl, lock, channels>>
  /\ UNCHANGED threadVars

\* ------------------------------------------------------------ the callers
\* The load: background clients register first, one after the other, and the
\* observed callers act once the registry is one short of its limit or
\* fuller; from then on only the last background client comes and goes.
Loaded == FillLevel + 1 >= Limit

\* A client identifier is added with any object (never nil) and either flag;
\* the next background identifier is added with its own object, not
\* privileged.
AddInputs ==
  {in \in ClientIds \X Conns \X BOOLEAN : Loaded}
    \cup {<<FillId(k), FillConn(k), FALSE>> : k \in {FillLevel + 1} \cap (1 .. NumFillers)}

\* Any client identifier is removed; of the background ones the last one
\* added when the registry holds Limit of them, or the next one (which has
\* no entry).
RemoveInputs ==
  {id \in ClientIds : Loaded}
    \cup {FillId(k) : k \in {FillLevel} \cap (Limit .. NumFillers)}
    \cup {FillId(k) : k \in {j \in {FillLevel + 1} : Loaded} \cap (1 .. NumFillers)}

\* The objects the observed callers act on at this moment.
Observed == {c \in Conns : Loaded}

Next ==
  \/ \E c \in Observed : AttachPc(c)
  \/ \E c \in Observed, s \in PcStates : PcStateChange(c, s)
  \/ \E c \in Observed, cand \in Candidates : AddLocalCandidate(c, cand)
  \/ \E c \in Observed, closeErr \in BOOLEAN : Destroy(c, closeErr)
  \/ \E id \in RemoveInputs : Remove(id)
  \/ \E in \in AddInputs : AddLocked(in[1], in[2], in[3])
  \/ \E in \in AddInputs : AddUnlocked(in[1], in[2], in[3])

Spec == Init /\ [][Next]_vars

\* The objects alone, never registered: the calls on them and what the
\* transport does to their handles.
NextRTC ==
  \/ \E c \in Conns : AttachPc(c)
  \/ \E c \in Conns, s \in PcStates : PcStateChange(c, s)
  \/ \E c \in Conns, cand \in Candidates : AddLocalCandidate(c, cand)
  \/ \E c \in Conns, closeErr \in BOOLEAN : Destroy(c, closeErr)

SpecRTC == Init /\ [][NextRTC]_vars

\* One object with its data channels: every call of a single caller on it,
\* and what the signalling layer and the transport do to it.
Senders == {1}

NextSend ==
  \/ \E c \in Senders : AttachPc(c)
  \/ \E c \in Senders, s \in PcStates : PcStateChange(c, s)
  \/ \E c \in Senders, cand \in Candidates : AddLocalCandidate(c, cand)
  \/ \E c \in Senders, closeErr \in BOOLEAN : Destroy(c, closeErr)
  \/ \E c \in Senders : IsConnected(c)
  \/ \E c \in Senders, ch \in ChannelNames : SetChannel(c, ch)
  \/ \E c \in Senders, marshalErr, sendErr \in BOOLEAN :
        SendMetaMessage(c, marshalErr, sendErr)
  \/ \E c \in Senders, sendErr \in BOOLEAN : SendFrameBytes(c, sendErr)
  \/ \E c \in Senders, sendErr \in BOOLEAN : SendControlBytes(c, sendErr)

SpecSend == Init /\ [][NextSend]_vars

TypeOK ==
  /\ impl \in Impls
  /\ rtcMap \in [Ids -> {Nil} \cup Conns \cup FillConns]
  /\ lock \in {"free", "held"}
  /\ pc \in [Conns -> {NilPc} \cup PcStates]
  /\ \A c \in Conns : Len(candidates[c]) <= MaxCands
  /\ carIds \subseteq GetAllIds
  /\ MapLen <= Limit + Cardinality(ClientIds)
  /\ FillLevel <= Limit
  /\ channels \in [Conns -> [ChannelNames -> {NilChannel, OpenChannel}]]

\* ====================================================== concurrent callers
\* Each thread makes one call after the other; a call is a sequence of
\* steps, one per statement that reads or writes shared state, and at[t] is
\* the statement thread t executes next.

\* What a step of a thread leaves alone outside the objects' fields; call,
\* the record of the last call of a single caller, is void from then on.
ThreadStepLeaves ==
  /\ call' = NoCall
  /\ UNCHANGED <<impl, carIds, registered, channels>>

\* Faulty variant: a CandidatesLock that is granted while it is held.
CandidatesLockFree_Always(c) == TRUE

\* Whether r.CandidatesLock.Lock() can be granted.
CandidatesLockFree(c) == candLock[c] = NoThread

\* A thread calls AddLocalCandidate with a candidate not seen before.
AddLocalCandidate_Call(t, c) ==
  /\ at[t] = "idle"
  /\ hist.adds < MaxAdds
  /\ at' = [at EXCEPT ![t] = "add_lock"]
  /\ local' = [local EXCEPT ![t] =
                 [op |-> "AddLocalCandidate", conn |-> c, cand |-> hist.adds + 1,
                  read |-> <<>>]]
  /\ hist' = [hist EXCEPT !.adds = @ + 1]
  /\ ThreadStepLeaves
  /\ UNCHANGED <<rtcMap, lock, pc, candidates, candLock, readers>>

\* r.CandidatesLock.Lock()
AddLocalCandidate_Lock(t) ==
  /\ at[t] = "add_lock"
  /\ CandidatesLockFree(local[t].conn)
  /\ candLock' = [candLock EXCEPT ![local[t].conn] = t]
  /\ at' = [at EXCEPT ![t] = "add_read"]
  /\ ThreadStepLeaves
  /\ UNCHANGED <<rtcMap, lock, pc, candidates, local, readers, hist>>

\* append(r.Candidates, candidate): the slice is read ...
AddLocalCandidate_Read(t) ==
  /\ at[t] = "add_read"
  /\ local' = [local EXCEPT ![t].read = candidates[local[t].conn]]
  /\ at' = [at EXCEPT ![t] = "add_write"]
  /\ ThreadStepLeaves
  /\ UNCHANGED <<rtcMap, lock, pc, candidates, candLock, readers, hist>>

\* ... and r.Candidates is assigned the slice with the candidate appended.
AddLocalCandidate_Write(t) ==
  /\ at[t] = "add_write"
  /\ candidates' = [candidates EXCEPT ![local[t].conn] =
                       Append(local[t].read, local[t].cand)]
  /\ hist' = [hist EXCEPT !.appended = @ + 1]
  /\ at' = [at EXCEPT ![t] = "add_unlock"]
  /\ ThreadStepLeaves
  /\ UNCHANGED <<rtcMap, lock, pc, candLock, local, readers>>

\* The deferred Unlock, and the return.
AddLocalCandidate_Return(t) ==
  /\ at[t] = "add_unlock"
  /\ candLock' = [candLock EXCEPT ![local[t].conn] = NoThread]
  /\ hist' = [hist EXCEPT !.returned = @ \cup {local[t].cand}]
  /\ at' = [at EXCEPT ![t] = "idle"]
  /\ local' = [local EXCEPT ![t] = NoLocal]
  /\ ThreadStepLeaves
  /\ UNCHANGED <<rtcMap, lock, pc, candidates, readers>>

\* A thread calls GetAllLocalCandidates.
GetAllLocalCandidates_Call(t, c) ==
  /\ at[t] = "idle"
  /\ Len(hist.snaps) + Cardinality({u \in Threads : at[u] \in {"get_lock", "get_copy"}})
       < MaxGets
  /\ at' = [at EXCEPT ![t] = "get_lock"]
  /\ local' = [local EXCEPT ![t] =
                 [op |-> "GetAllLocalCandidates", conn |-> c,
                  mustSee |-> hist.returned, snap |-> <<>>]]
  /\ ThreadStepLeaves
  /\ UNCHANGED <<rtcMap, lock, pc, candidates, candLock, readers, hist>>

\* r.CandidatesLock.Lock()
GetAllLocalCandidates_Lock(t) ==
  /\ at[t] = "get_lock"
  /\ CandidatesLockFree(local[t].conn)
  /\ candLock' = [candLock EXCEPT ![local[t].conn] = t]
  /\ at' = [at EXCEPT ![t] = "get_copy"]
  /\ ThreadStepLeaves
  /\ UNCHANGED <<rtcMap, lock, pc, candidates, local, readers, hist>>

\* original := r.Candidates; copy(safeCandidates, original)
GetAllLocalCandidates_Copy(t) ==
  /\ at[t] = "get_copy"
  /\ local' = [local EXCEPT ![t].snap = GetAllLocalCandidates(local[t].conn)]
  /\ hist' = [hist EXCEPT !.snaps =
                 Append(@, [snap |-> GetAllLocalCandidates(local[t].conn),
                            mustSee |-> local[t].mustSee])]
  /\ at' = [at EXCEPT ![t] = "get_unlock"]
  /\ ThreadStepLeaves
  /\ UNCHANGED <<rtcMap, lock, pc, candidates, candLock, readers>>

\* The deferred Unlock, and the return of the copy.
GetAllLocalCandidates_Return(t) ==
  /\ at[t] = "get_unlock"
  /\ candLock' = [candLock EXCEPT ![local[t].conn] = NoThread]
  /\ at' = [at EXCEPT ![t] = "idle"]
  /\ local' = [local EXCEPT ![t] = NoLocal]
  /\ ThreadStepLeaves
  /\ UNCHANGED <<rtcMap, lock, pc, candidates, readers, hist>>

\* Threads adding candidates to one object and reading them, no Destroy.
NextCand ==
  \/ \E t \in Threads, c \in Shared : AddLocalCandidate_Call(t, c)
  \/ \E t \in Threads : AddLocalCandidate_Lock(t)
  \/ \E t \in Threads : AddLocalCandidate_Read(t)
  \/ \E t \in Threads : AddLocalCandidate_Write(t)
  \/ \E t \in Threads : AddLocalCandidate_Return(t)
  \/ \E t \in Threads, c \in Shared : GetAllLocalCandidates_Call(t, c)
  \/ \E t \in Threads : GetAllLocalCandidates_Lock(t)
  \/ \E t \in Threads : GetAllLocalCandidates_Copy(t)
  \/ \E t \in Threads : GetAllLocalCandidates_Return(t)

SpecCand == Init /\ [][NextCand]_vars

\* ------------------------------------------------- Destroy, by statements
\* Destroy reads and writes r.Pc outside any lock; only the candidate list
\* is guarded.  The receiver is local[t].target and the caller continues at
\* local[t].ret ("idle" when a thread called Destroy itself).
Destroy_Call(t, c) ==
  /\ at[t] = "idle"
  /\ at' = [at EXCEPT ![t] = "destroy_check"]
  /\ local' = [local EXCEPT ![t] = [op |-> "Destroy", target |-> c, ret |-> "idle"]]
  /\ ThreadStepLeaves
  /\ UNCHANGED <<rtcMap, lock, pc, candidates, candLock, readers, hist>>

\* What the caller of a Destroy that returns goes on with.
Destroy_Returns(t) ==
  /\ at' = [at EXCEPT ![t] = local[t].ret]
  /\ local' = [local EXCEPT ![t] = IF local[t].ret = "idle" THEN NoLocal ELSE @]

\* if r.Pc == nil { return }
Destroy_Check(t) ==
  /\ at[t] = "destroy_check"
  /\ IF pc[local[t].target] = NilPc
       THEN Destroy_Returns(t)
       ELSE at' = [at EXCEPT ![t] = "destroy_close"] /\ UNCHANGED local
  /\ ThreadStepLeaves
  /\ UNCHANGED <<rtcMap, lock, pc, candidates, candLock, readers, hist>>

\* r.Pc.Close() reads the field again, whatever it holds by now: on a
\* handle, Close is called (its error is only logged) and the handle's state
\* is closed; on nil, the call dereferences a nil pointer and the thread
\* panics.
Destroy_Close(t) ==
  /\ at[t] = "destroy_close"
  /\ IF pc[local[t].target] = NilPc
       THEN /\ hist' = [hist EXCEPT !.nilCalls = @ + 1]
            /\ at' = [at EXCEPT ![t] = "panic"]
            /\ UNCHANGED pc
       ELSE /\ hist' = [hist EXCEPT !.closes = @ + 1]
            /\ pc' = [pc EXCEPT ![local[t].target] = "closed"]
            /\ at' = [at EXCEPT ![t] = "destroy_lock"]
  /\ ThreadStepLeaves
  /\ UNCHANGED <<rtcMap, lock, candidates, candLock, local, readers>>

\* r.CandidatesLock.Lock()
Destroy_Lock(t) ==
  /\ at[t] = "destroy_lock"
  /\ CandidatesLockFree(local[t].target)
  /\ candLock' = [candLock EXCEPT ![local[t].target] = t]
  /\ at' = [at EXCEPT ![t] = "destroy_clear"]
  /\ ThreadStepLeaves
  /\ UNCHANGED <<rtcMap, lock, pc, candidates, local, readers, hist>>

\* r.Candidates = make([]webrtc.ICECandidateInit, 0)
Destroy_Clear(t) ==
  /\ at[t] = "destroy_clear"
  /\ candidates' = DestroyedCandidates(local[t].target)
  /\ at' = [at EXCEPT ![t] = "destroy_nil"]
  /\ ThreadStepLeaves
  /\ UNCHANGED <<rtcMap, lock, pc, candLock, local, readers, hist>>

\* r.Pc = nil
Destroy_SetNil(t) ==
  /\ at[t] = "destroy_nil"
  /\ pc' = DestroyedPc(local[t].target)
  /\ at' = [at EXCEPT ![t] = "destroy_unlock"]
  /\ ThreadStepLeaves
  /\ UNCHANGED <<rtcMap, lock, candidates, candLock, local, readers, hist>>

\* The deferred Unlock, and the return.
Destroy_Return(t) ==
  /\ at[t] = "destroy_unlock"
  /\ candLock' = [candLock EXCEPT ![local[t].target] = NoThread]
  /\ Destroy_Returns(t)
  /\ ThreadStepLeaves
  /\ UNCHANGED <<rtcMap, lock, pc, candidates, readers, hist>>

\* Threads destroying one object, to which the signalling layer attaches a
\* handle once and whose candidates the transport discovers meanwhile.
NextDestroy ==
  \/ \E c \in Shared : hist.closes = 0 /\ hist.nilCalls = 0 /\ AttachPc(c)
  \/ \E c \in Shared, s \in PcStates \ {"closed"} : PcStateChange(c, s)
  \/ \E t \in Threads, c \in Shared : Destroy_Call(t, c)
  \/ \E t \in Threads : Destroy_Check(t)
  \/ \E t \in Threads : Destroy_Close(t)
  \/ \E t \in Threads : Destroy_Lock(t)
  \/ \E t \in Threads : Destroy_Clear(t)
  \/ \E t \in Threads : Destroy_SetNil(t)
  \/ \E t \in Threads : Destroy_Return(t)

SpecDestroy == Init /\ [][NextDestroy]_vars

\* ------------------------------------------------ RTCMap, by statements
\* The calls on the registry, statement by statement.  In the locked variant
\* (map.go) Add and Remove start with m.lock.Lock() and Get and GetAllIds
\* with m.lock.RLock(), released when the call returns; the unlocked variant
\* (part_000) has the same statements without them.  Add calls Remove (and,
\* unlocked, Destroy) on the same thread: the callee's steps run with the
\* caller's locals and go back to local[t].rret (local[t].ret).

\* Lock() is granted when nobody holds the lock; RLock() when no writer
\* holds it or waits for it.
WriteLockFree == lock = "free" /\ readers = {}
ReadLockFree ==
  lock = "free" /\ \A u \in Threads : at[u] \notin {"Add_lock", "Remove_lock"}

\* The identifier and the object the background would register next.
NextFillId == FillId(Limit)
NextFillConn == FillConn(Limit)

\* What thread t calls Add with: the client identifier with the object the
\* thread has made for it (thread t holds object t), privileged or not, or
\* the next background identifier with its object.
ThreadAddInputs(t) ==
  {in \in ClientIds \X Conns \X BOOLEAN : in[2] = t}
    \cup {<<NextFillId, NextFillConn, FALSE>>}

\* The identifiers the threads of this variant use, and those of them that
\* abs holds.
ThreadIds == ClientIds \cup {NextFillId}
AbsIds(h) == {id \in ThreadIds : h.abs[id] # Nil}

\* The history once a successful Add or Remove has taken effect: the
\* identifier maps to v, and the threads inside Get(id) or GetAllIds have
\* the new content in their window.
Committed(id, v) ==
  LET h == [hist EXCEPT !.abs[id] = v]
  IN [h EXCEPT !.window =
        [u \in Threads |->
           IF at[u] \in {"Get_rlock", "Get_read", "Get_ret"} /\ local[u].id = id
             THEN hist.window[u] \cup {v}
           ELSE IF at[u] \in {"Ids_rlock", "Ids_range", "Ids_ret"}
             THEN hist.window[u] \cup {AbsIds(h)}
           ELSE hist.window[u]]]

\* ---- Add
Add_Call(t, id, c, isCar) ==
  /\ at[t] = "idle"
  /\ at' = [at EXCEPT ![t] = IF impl = "locked" THEN "Add_lock" ELSE "Add_cap"]
  /\ local' = [local EXCEPT ![t] =
                 [op |-> "Add", id |-> id, conn |-> c, car |-> isCar,
                  existing |-> Nil, res |-> "none",
                  target |-> Nil, ret |-> "none", rret |-> "none", rres |-> "none"]]
  /\ ThreadStepLeaves
  /\ UNCHANGED <<rtcMap, lock, pc, candidates, candLock, readers, hist>>

\* m.lock.Lock()
Add_Lock(t) ==
  /\ at[t] = "Add_lock"
  /\ WriteLockFree
  /\ lock' = "held"
  /\ at' = [at EXCEPT ![t] = "Add_cap"]
  /\ ThreadStepLeaves
  /\ UNCHANGED <<rtcMap, pc, candidates, candLock, local, readers, hist>>

\* if len(m.rtcMap) >= limit && !isCar { return error }
Add_Capacity(t) ==
  /\ at[t] = "Add_cap"
  /\ IF (impl = "locked" /\ FullLocked(local[t].car))
          \/ (impl = "unlocked" /\ FullUnlocked(local[t].car))
       THEN /\ at' = [at EXCEPT ![t] = "Add_ret"]
            /\ local' = [local EXCEPT ![t].res = "CapacityExceeded"]
       ELSE /\ at' = [at EXCEPT ![t] = "Add_exist"]
            /\ UNCHANGED local
  /\ ThreadStepLeaves
  /\ UNCHANGED <<rtcMap, lock, pc, candidates, candLock, readers, hist>>

\* existingEntry := m.rtcMap[id]
Add_Existing(t) ==
  /\ at[t] = "Add_exist"
  /\ local' = [local EXCEPT ![t].existing = rtcMap[local[t].id]]
  /\ at' = [at EXCEPT ![t] = "Add_state"]
  /\ ThreadStepLeaves
  /\ UNCHANGED <<rtcMap, lock, pc, candidates, candLock, readers, hist>>

\* if existingEntry != nil && existingEntry.Pc.ConnectionState() != closed
\*    && ... != disconnected: a nil Pc panics (the deferred Unlock runs);
\* a live entry is refused (locked) or destroyed (unlocked: Destroy is
\* called, and Add goes on with the Remove); otherwise Add goes on.
Add_State(t) ==
  /\ at[t] = "Add_state"
  /\ IF local[t].existing = Nil
       THEN /\ at' = [at EXCEPT ![t] = "Add_insert"]
            /\ UNCHANGED <<local, lock, hist>>
       ELSE IF PcOf(local[t].existing) = NilPc
       THEN /\ at' = [at EXCEPT ![t] = "panic"]
            /\ lock' = IF impl = "locked" THEN "free" ELSE lock
            /\ hist' = [hist EXCEPT !.nilCalls = @ + 1]
            /\ UNCHANGED local
       ELSE IF Active(local[t].existing) /\ impl = "locked"
       THEN /\ at' = [at EXCEPT ![t] = "Add_ret"]
            /\ local' = [local EXCEPT ![t].res = "DuplicateConnection"]
            /\ UNCHANGED <<lock, hist>>
       ELSE IF Active(local[t].existing)
       THEN /\ at' = [at EXCEPT ![t] = "destroy_check"]
            /\ local' = [local EXCEPT ![t].target = local[t].existing,
                                       ![t].ret = "Add_remove"]
            /\ UNCHANGED <<lock, hist>>
       ELSE /\ at' = [at EXCEPT ![t] = "Add_remove"]
            /\ UNCHANGED <<local, lock, hist>>
  /\ ThreadStepLeaves
  /\ UNCHANGED <<rtcMap, pc, candidates, candLock, readers>>

\* if existingEntry != nil { err := m.Remove(id) ...: the call.
Add_CallsRemove(t) ==
  /\ at[t] = "Add_remove"
  /\ at' = [at EXCEPT ![t] = IF impl = "locked" THEN "Remove_lock" ELSE "Remove_check"]
  /\ local' = [local EXCEPT ![t].rret = "Add_removed"]
  /\ ThreadStepLeaves
  /\ UNCHANGED <<rtcMap, lock, pc, candidates, candLock, readers, hist>>

\* ... if err != nil { return err } }
Add_Removed(t) ==
  /\ at[t] = "Add_removed"
  /\ IF local[t].rres # "ok"
       THEN /\ at' = [at EXCEPT ![t] = "Add_ret"]
            /\ local' = [local EXCEPT ![t].res = local[t].rres]
       ELSE /\ at' = [at EXCEPT ![t] = "Add_insert"]
            /\ UNCHANGED local
  /\ ThreadStepLeaves
  /\ UNCHANGED <<rtcMap, lock, pc, candidates, candLock, readers, hist>>

\* m.rtcMap[id] = rtc
Add_Insert(t) ==
  /\ at[t] = "Add_insert"
  /\ rtcMap' = Inserted(local[t].id, local[t].conn)
  /\ hist' = Committed(local[t].id, local[t].conn)
  /\ local' = [local EXCEPT ![t].res = "ok"]
  /\ at' = [at EXCEPT ![t] = "Add_ret"]
  /\ ThreadStepLeaves
  /\ UNCHANGED <<lock, pc, candidates, candLock, readers>>

\* The deferred Unlock, and the return.
Add_Return(t) ==
  /\ at[t] = "Add_ret"
  /\ lock' = IF impl = "locked" THEN "free" ELSE lock
  /\ at' = [at EXCEPT ![t] = "idle"]
  /\ local' = [local EXCEPT ![t] = NoLocal]
  /\ ThreadStepLeaves
  /\ UNCHANGED <<rtcMap, pc, candidates, candLock, readers, hist>>

\* ---- Remove
Remove_Call(t, id) ==
  /\ at[t] = "idle"
  /\ at' = [at EXCEPT ![t] = IF impl = "locked" THEN "Remove_lock" ELSE "Remove_check"]
  /\ local' = [local EXCEPT ![t] =
                 [op |-> "Remove", id |-> id, rret |-> "idle", rres |-> "none"]]
  /\ ThreadStepLeaves
  /\ UNCHANGED <<rtcMap, lock, pc, candidates, candLock, readers, hist>>

\* m.lock.Lock(): also when the caller is an Add that holds the lock.
Remove_Lock(t) ==
  /\ at[t] = "Remove_lock"
  /\ WriteLockFree
  /\ lock' = "held"
  /\ at' = [at EXCEPT ![t] = "Remove_check"]
  /\ ThreadStepLeaves
  /\ UNCHANGED <<rtcMap, pc, candidates, candLock, local, readers, hist>>

\* conn := m.rtcMap[id]; if conn == nil { return error }
Remove_Check(t) ==
  /\ at[t] = "Remove_check"
  /\ IF Absent(local[t].id)
       THEN /\ at' = [at EXCEPT ![t] = "Remove_ret"]
            /\ local' = [local EXCEPT ![t].rres = "NotFound"]
       ELSE /\ at' = [at EXCEPT ![t] = "Remove_delete"]
            /\ UNCHANGED local
  /\ ThreadStepLeaves
  /\ UNCHANGED <<rtcMap, lock, pc, candidates, candLock, readers, hist>>

\* delete(m.rtcMap, id); called by a thread itself, the Remove takes effect
\* here; called by Add, it is a step of the Add.
Remove_Delete(t) ==
  /\ at[t] = "Remove_delete"
  /\ rtcMap' = Deleted(local[t].id)
  /\ hist' = IF local[t].rret = "idle" THEN Committed(local[t].id, Nil) ELSE hist
  /\ local' = [local EXCEPT ![t].rres = "ok"]
  /\ at' = [at EXCEPT ![t] = "Remove_ret"]
  /\ ThreadStepLeaves
  /\ UNCHANGED <<lock, pc, candidates, candLock, readers>>

\* The deferred Unlock, and the return to the caller.
Remove_Return(t) ==
  /\ at[t] = "Remove_ret"
  /\ lock' = IF impl = "locked" THEN "free" ELSE lock
  /\ at' = [at EXCEPT ![t] = local[t].rret]
  /\ local' = [local EXCEPT ![t] = IF local[t].rret = "idle" THEN NoLocal ELSE @]
  /\ ThreadStepLeaves
  /\ UNCHANGED <<rtcMap, pc, candidates, candLock, readers, hist>>

\* ---- Get
Get_Call(t, id) ==
  /\ at[t] = "idle"
  /\ at' = [at EXCEPT ![t] = IF impl = "locked" THEN "Get_rlock" ELSE "Get_read"]
  /\ local' = [local EXCEPT ![t] = [op |-> "Get", id |-> id, res |-> Nil]]
  /\ hist' = [hist EXCEPT !.window[t] = {hist.abs[id]}]
  /\ ThreadStepLeaves
  /\ UNCHANGED <<rtcMap, lock, pc, candidates, candLock, readers>>

\* m.lock.RLock()
Get_RLock(t) ==
  /\ at[t] = "Get_rlock"
  /\ ReadLockFree
  /\ readers' = readers \cup {t}
  /\ at' = [at EXCEPT ![t] = "Get_read"]
  /\ ThreadStepLeaves
  /\ UNCHANGED <<rtcMap, lock, pc, candidates, candLock, local, hist>>

\* rtc := m.rtcMap[id]
Get_Read(t) ==
  /\ at[t] = "Get_read"
  /\ local' = [local EXCEPT ![t].res = Get(local[t].id)]
  /\ at' = [at EXCEPT ![t] = "Get_ret"]
  /\ ThreadStepLeaves
  /\ UNCHANGED <<rtcMap, lock, pc, candidates, candLock, readers, hist>>

\* The deferred RUnlock, and the return.
Get_Return(t) ==
  /\ at[t] = "Get_ret"
  /\ readers' = readers \ {t}
  /\ at' = [at EXCEPT ![t] = "idle"]
  /\ local' = [local EXCEPT ![t] = NoLocal]
  /\ hist' = [hist EXCEPT !.window[t] = {}]
  /\ ThreadStepLeaves
  /\ UNCHANGED <<rtcMap, lock, pc, candidates, candLock>>

\* ---- GetAllIds
GetAllIds_Call(t) ==
  /\ at[t] = "idle"
  /\ at' = [at EXCEPT ![t] = IF impl = "locked" THEN "Ids_rlock" ELSE "Ids_range"]
  /\ local' = [local EXCEPT ![t] = [op |-> "GetAllIds", res |-> {}]]
  /\ hist' = [hist EXCEPT !.window[t] = {AbsIds(hist)}]
  /\ ThreadStepLeaves
  /\ UNCHANGED <<rtcMap, lock, pc, candidates, candLock, readers>>

\* m.lock.RLock()
GetAllIds_RLock(t) ==
  /\ at[t] = "Ids_rlock"
  /\ ReadLockFree
  /\ readers' = readers \cup {t}
  /\ at' = [at EXCEPT ![t] = "Ids_range"]
  /\ ThreadStepLeaves
  /\ UNCHANGED <<rtcMap, lock, pc, candidates, candLock, local, hist>>

\* for id := range m.rtcMap { ids = append(ids, id) }
GetAllIds_Range(t) ==
  /\ at[t] = "Ids_range"
  /\ local' = [local EXCEPT ![t].res = GetAllIds]
  /\ at' = [at EXCEPT ![t] = "Ids_ret"]
  /\ ThreadStepLeaves
  /\ UNCHANGED <<rtcMap, lock, pc, candidates, candLock, readers, hist>>

\* The deferred RUnlock, and the return.
GetAllIds_Return(t) ==
  /\ at[t] = "Ids_ret"
  /\ readers' = readers \ {t}
  /\ at' = [at EXCEPT ![t] = "idle"]
  /\ local' = [local EXCEPT ![t] = NoLocal]
  /\ hist' = [hist EXCEPT !.window[t] = {}]
  /\ ThreadStepLeaves
  /\ UNCHANGED <<rtcMap, lock, pc, candidates, candLock>>

\* ---- the unguarded map
\* Where a thread is about to write the map, and about to read or write it.
MapWrite == {"Add_insert", "Remove_delete"}
MapAccess ==
  MapWrite \cup {"Add_cap", "Add_exist", "Remove_check", "Get_read", "Ids_range"}

\* Unlocked variant: a write of the map that overlaps another access of it is
\* a data race; the accesses may take effect one after the other (the steps
\* above), or the runtime detects the overlap and ends the process.
MapAccessRace(t, u) ==
  /\ impl = "unlocked"
  /\ t # u
  /\ at[t] \in MapWrite
  /\ at[u] \in MapAccess
  /\ at' = [x \in Threads |-> "fatal"]
  /\ ThreadStepLeaves
  /\ UNCHANGED <<rtcMap, lock, pc, candidates, candLock, local, readers, hist>>

\* ---- the callers
\* A step of thread t inside a call.
ThreadStep(t) ==
  \/ Add_Lock(t) \/ Add_Capacity(t) \/ Add_Existing(t) \/ Add_State(t)
  \/ Add_CallsRemove(t) \/ Add_Removed(t) \/ Add_Insert(t) \/ Add_Return(t)
  \/ Remove_Lock(t) \/ Remove_Check(t) \/ Remove_Delete(t) \/ Remove_Return(t)
  \/ Get_RLock(t) \/ Get_Read(t) \/ Get_Return(t)
  \/ GetAllIds_RLock(t) \/ GetAllIds_Range(t) \/ GetAllIds_Return(t)
  \/ Destroy_Check(t) \/ Destroy_Close(t) \/ Destroy_Lock(t)
  \/ Destroy_Clear(t) \/ Destroy_SetNil(t) \/ Destroy_Return(t)

\* The background fills the registry, one caller at a time, until one slot
\* is free; then the threads call concurrently, while the signalling layer
\* attaches a handle to the first thread's object, once, and the transport
\* disconnects it (the second thread's object stays without a handle).
NextMap ==
  \/ \E in \in AddInputs : ~Loaded /\ AddLocked(in[1], in[2], in[3])
  \/ \E in \in AddInputs : ~Loaded /\ AddUnlocked(in[1], in[2], in[3])
  \/ \E c \in Shared : Loaded /\ hist.closes = 0 /\ AttachPc(c)
  \/ \E c \in Shared, s \in {"disconnected"} : Loaded /\ PcStateChange(c, s)
  \/ \E t \in Threads : \E in \in ThreadAddInputs(t) :
        Loaded /\ Add_Call(t, in[1], in[2], in[3])
  \/ \E t \in Threads, id \in ClientIds : Loaded /\ Remove_Call(t, id)
  \/ \E t \in Threads, id \in ClientIds : Loaded /\ Get_Call(t, id)
  \/ \E t \in Threads : Loaded /\ GetAllIds_Call(t)
  \/ \E t \in Threads : Add_Lock(t)
  \/ \E t \in Threads : Add_Capacity(t)
  \/ \E t \in Threads : Add_Existing(t)
  \/ \E t \in Threads : Add_State(t)
  \/ \E t \in Threads : Add_CallsRemove(t)
  \/ \E t \in Threads : Add_Removed(t)
  \/ \E t \in Threads : Add_Insert(t)
  \/ \E t \in Threads : Add_Return(t)
  \/ \E t \in Threads : Remove_Lock(t)
  \/ \E t \in Threads : Remove_Check(t)
  \/ \E t \in Threads : Remove_Delete(t)
  \/ \E t \in Threads : Remove_Return(t)
  \/ \E t \in Threads : Get_RLock(t)
  \/ \E t \in Threads : Get_Read(t)
  \/ \E t \in Threads : Get_Return(t)
  \/ \E t \in Threads : GetAllIds_RLock(t)
  \/ \E t \in Threads : GetAllIds_Range(t)
  \/ \E t \in Threads : GetAllIds_Return(t)
  \/ \E t \in Threads : Destroy_Check(t)
  \/ \E t \in Threads : Destroy_Close(t)
  \/ \E t \in Threads : Destroy_Lock(t)
  \/ \E t \in Threads : Destroy_Clear(t)
  \/ \E t \in Threads : Destroy_SetNil(t)
  \/ \E t \in Threads : Destroy_Return(t)
  \/ \E t, u \in Threads : MapAccessRace(t, u)

SpecMap == Init /\ [][NextMap]_vars

\* Scheduling: a thread inside a call goes on running, and a thread that
\* waits for a lock gets it if the lock is free again and again (the
\* runtime hands a mutex to its waiters in turn).
FairThreads == \A t \in Threads : SF_vars(ThreadStep(t))

SpecMapFair == SpecMap /\ FairThreads

\* ================================================================ claims
\* A step that is a call of Add / of Remove: the call it leaves in call'.
IsAdd == call'.op = "Add"
IsRemove == call'.op = "Remove"

\* ---------------------------------------------------------------------
\* C1, for one step: an Add on an identifier that has no entry, not privileged, succeeds
\* and stores the object while the registry holds fewer than the limit
\* (so the first M on an empty registry all succeed); with the limit reached
\* it fails with CapacityExceeded and leaves the registry as it was; a
\* privileged one succeeds and stores the object whatever the count.
C1_Step ==
  (IsAdd /\ rtcMap[call'.id] = Nil) =>
    /\ (~call'.car /\ MapLen < Limit) =>
         (call'.res = "ok" /\ rtcMap' = [rtcMap EXCEPT ![call'.id] = call'.conn])
    /\ (~call'.car /\ MapLen >= Limit) =>
         (call'.res = "CapacityExceeded" /\ rtcMap' = rtcMap)
    /\ call'.car =>
         (call'.res = "ok" /\ rtcMap' = [rtcMap EXCEPT ![call'.id] = call'.conn])

\* C1: every step satisfies C1_Step: non-privileged Adds on fresh identifiers
\* succeed below the limit and fail with CapacityExceeded, changing nothing,
\* at it; privileged ones always succeed.
C1_CapacityLimit == [][C1_Step]_vars

\* A privileged Add has succeeded on a registry that already held the limit:
\* the M non-privileged ones before it succeeded, and it made M + 1.
C1_Witness ==
  /\ call.op = "Add" /\ call.car /\ call.res = "ok"
  /\ MapLen = Limit + 1
  /\ FillLevel = Limit

\* ---------------------------------------------------------------------
\* C2 as stated: a non-privileged Add on an identifier that has no entry is
\* rejected with CapacityExceeded only when the entries that were added as
\* non-privileged already number the limit.
C2_Original ==
  [][(IsAdd /\ rtcMap[call'.id] = Nil /\ ~call'.car
        /\ call'.res = "CapacityExceeded")
       => Cardinality(GetAllIds \ carIds) >= Limit]_vars

\* C2 amended: it is rejected with CapacityExceeded exactly when the registry
\* holds at least the limit of entries in all, those added as privileged
\* counted with the others.
C2_TotalCount ==
  [][(IsAdd /\ rtcMap[call'.id] = Nil /\ ~call'.car)
       => (call'.res = "CapacityExceeded" <=> Cardinality(GetAllIds) >= Limit)]_vars

\* A rejection while fewer than the limit were added as non-privileged.
C2_Witness ==
  /\ call.op = "Add" /\ ~call.car /\ call.res = "CapacityExceeded"
  /\ rtcMap[call.id] = Nil
  /\ Cardinality(GetAllIds \ carIds) < Limit
  /\ Cardinality(GetAllIds) = Limit

\* ---------------------------------------------------------------------
\* The entry an Add or Remove step finds under its identifier, and whether
\* an object's handle is in a terminal state / is live.
Existing == rtcMap[call'.id]
Terminal(c) == PcOf(c) \in {"closed", "disconnected"}
Live(c) == PcOf(c) \notin {NilPc, "closed", "disconnected"}

\* The same of an object after the step.
PcAfter(c) == IF c \in Conns THEN pc'[c] ELSE NewRTC.Pc
CandidatesAfter(c) == IF c \in Conns THEN candidates'[c] ELSE NewRTC.Candidates
LiveAfter(c) == PcAfter(c) \notin {NilPc, "closed", "disconnected"}

\* Whether an Add step passes the capacity check, which comes first.
PassesCapacity == call'.car \/ Cardinality(GetAllIds) < Limit

\* C3 as stated, for the calls that pass the capacity check: Add on an
\* identifier whose entry's handle reports closed or disconnected returns
\* success, and afterwards the registry holds the new object under the
\* identifier, every other entry and the entry count being what they were.
C3_Original ==
  [][(IsAdd /\ PassesCapacity /\ Existing # Nil /\ Terminal(Existing))
       => /\ call'.res = "ok"
          /\ rtcMap' = [rtcMap EXCEPT ![call'.id] = call'.conn]
          /\ Cardinality(GetAllIds)' = Cardinality(GetAllIds)]_vars

\* ---------------------------------------------------------------------
\* C4 as stated: when Add replaces an entry whose handle is in a terminal
\* state by another object, the replaced object has been destroyed when the
\* new one is stored: its handle is nil and its candidate list is empty.
C4_Original ==
  [][(IsAdd /\ Existing # Nil /\ Existing # call'.conn /\ Terminal(Existing)
        /\ call'.res = "ok")
       => /\ PcAfter(Existing) = NilPc
          /\ CandidatesAfter(Existing) = <<>>]_vars

\* ---------------------------------------------------------------------
\* C5 as stated: in the locked variant, Add on an identifier whose entry's
\* handle is neither closed nor disconnected fails with DuplicateConnection
\* and changes neither the mapping nor the entry's handle or candidates.
C5_Original ==
  [][(IsAdd /\ impl = "locked" /\ Existing # Nil /\ Live(Existing))
       => /\ call'.res = "DuplicateConnection"
          /\ rtcMap' = rtcMap
          /\ pc' = pc
          /\ candidates' = candidates]_vars

\* C5 amended: such an Add fails, with CapacityExceeded when the registry
\* holds the limit and the call is not privileged (that check comes first)
\* and with DuplicateConnection otherwise, and in both cases nothing changes.
C5_RejectsLiveDuplicate ==
  [][(IsAdd /\ impl = "locked" /\ Existing # Nil /\ Live(Existing))
       => /\ call'.res = IF Cardinality(GetAllIds) >= maxLength /\ ~call'.car
                           THEN "CapacityExceeded"
                           ELSE "DuplicateConnection"
          /\ rtcMap' = rtcMap
          /\ pc' = pc
          /\ candidates' = candidates]_vars

\* A live duplicate was rejected: the entry is still there, live, with its
\* candidates.
C5_Witness ==
  /\ impl = "locked"
  /\ call.op = "Add" /\ call.res = "DuplicateConnection"
  /\ rtcMap[call.id] # Nil /\ rtcMap[call.id] # call.conn
  /\ Live(rtcMap[call.id])
  /\ CandidatesOf(rtcMap[call.id]) # <<>>

\* ---------------------------------------------------------------------
\* C6 as stated: no two objects that were registered under one identifier are
\* live at the same time.
C6_Original ==
  \A id \in ClientIds : \A c1, c2 \in registered[id] :
    c1 # c2 => ~(Live(c1) /\ Live(c2))

\* C6 amended: whenever Add stores an object under an identifier that has an
\* entry at that moment, the object it replaces is not live afterwards: it
\* was destroyed by Add, or its handle is in a terminal state.  (An object
\* taken out with Remove is not destroyed and may stay live.)
C6_ReplacedNotLive ==
  [][(IsAdd /\ call'.res = "ok" /\ Existing # Nil) => ~LiveAfter(Existing)]_vars

\* Add has destroyed a live entry and stored another object in its place.
C6_Witness ==
  /\ call.op = "Add" /\ call.res = "ok" /\ call.closes = 1
  /\ rtcMap[call.id] = call.conn
  /\ \E c \in registered[call.id] : c # call.conn /\ PcOf(c) = NilPc

\* ---------------------------------------------------------------------
\* C7: Remove on an identifier without an entry fails with NotFound and
\* leaves the mapping as it was.
C7_RemoveAbsent ==
  [][(IsRemove /\ Existing = Nil)
       => (call'.res = "NotFound" /\ rtcMap' = rtcMap)]_vars

\* Remove has failed on a registry that holds other entries.
C7_Witness ==
  /\ call.op = "Remove" /\ call.res = "NotFound"
  /\ rtcMap[call.id] = Nil
  /\ GetAllIds # {}

\* ---------------------------------------------------------------------
\* C8, for one step: Remove on an identifier with an entry succeeds, deletes that entry and
\* no other, so that Get returns nil and GetAllIds leaves the identifier out,
\* and touches no object's handle or candidates; and an identifier without
\* an entry gets one only by a successful Add on it.
C8_RemoveStep ==
  (IsRemove /\ Existing # Nil) =>
    /\ call'.res = "ok"
    /\ \A id \in Ids : rtcMap'[id] = IF id = call'.id THEN Nil ELSE rtcMap[id]
    /\ \A id \in Ids : id = call'.id => (Get(id)' = Nil /\ id \notin GetAllIds')
    /\ pc' = pc
    /\ candidates' = candidates

C8_OnlyAddBringsBack ==
  \A id \in Ids :
    (Get(id) = Nil /\ Get(id)' # Nil) =>
      (IsAdd /\ call'.id = id /\ call'.res = "ok")

\* C8: every step satisfies both: Remove deletes exactly its entry and
\* destroys nothing, and the identifier stays absent until a successful Add.
C8_RemoveDeletesOnly == [][C8_RemoveStep /\ C8_OnlyAddBringsBack]_vars

\* Remove has taken out an entry whose object is still attached and still has
\* its candidates, while other entries remain.
C8_Witness ==
  /\ call.op = "Remove" /\ call.res = "ok"
  /\ Get(call.id) = Nil
  /\ GetAllIds # {}
  /\ Live(call.conn) /\ CandidatesOf(call.conn) # <<>>

\* ---------------------------------------------------------------------
\* C9: a Destroy that directly follows a Destroy of the same object returns
\* without an error, calls Close on no handle and changes nothing.
C9_SecondDestroyNoop ==
  [][(call.op = "Destroy" /\ call'.op = "Destroy" /\ call'.conn = call.conn)
       => /\ call'.res = "noop"
          /\ call'.closes = 0
          /\ pc' = pc
          /\ candidates' = candidates
          /\ rtcMap' = rtcMap]_vars

\* The second of two Destroy calls in a row, the first of which closed the
\* handle.
C9_Witness ==
  /\ call.op = "Destroy" /\ call.again
  /\ call.res = "noop" /\ call.closes = 0
  /\ pc[call.conn] = NilPc

\* ---------------------------------------------------------------------
\* C10 as stated: after any Destroy the handle is nil and
\* GetAllLocalCandidates returns an empty sequence.
C10_Original ==
  call.op = "Destroy" =>
    (pc[call.conn] = NilPc /\ GetAllLocalCandidates(call.conn) = <<>>)

\* What Destroy does leave (not the claim): the handle is nil; the list is
\* empty when a handle was attached at the call, and what it was when none
\* was, Destroy then being a no-op.
Destroy_Leaves ==
  [][\A c \in Conns :
       (call'.op = "Destroy" /\ call'.conn = c)
         => /\ pc'[c] = NilPc
            /\ pc[c] # NilPc => GetAllLocalCandidates(c)' = <<>>
            /\ pc[c] = NilPc =>
                 GetAllLocalCandidates(c)' = GetAllLocalCandidates(c)]_vars

\* ---------------------------------------------------------------------
\* C11 as stated: IsConnected returns true exactly when the handle is not nil
\* and its state is connected; on an object whose handle is nil it returns
\* false (or InvalidState) and does not fault.
C11_Original ==
  [][\A c \in Conns :
       (call'.op = "IsConnected" /\ call'.conn = c)
         => /\ call'.res \in {"true", "false", "InvalidState"}
            /\ call'.res = "true" <=> (pc[c] # NilPc /\ pc[c] = "connected")]_vars

\* What IsConnected does guarantee (not the claim): with a handle attached it
\* returns whether the handle's state is connected, and changes nothing.
IsConnected_Attached ==
  [][\A c \in Conns :
       (call'.op = "IsConnected" /\ call'.conn = c /\ pc[c] # NilPc)
         => /\ call'.res = IF pc[c] = "connected" THEN "true" ELSE "false"
            /\ pc' = pc /\ candidates' = candidates /\ channels' = channels]_vars

\* ---------------------------------------------------------------------
\* C12: a Destroy of an object with a handle attached completes whatever
\* Close returns: it reports nothing to its caller, and when it returns the
\* candidate list is empty and the handle is nil.
C12_TeardownCompletes ==
  [][\A c \in Conns :
       (call'.op = "Destroy" /\ call'.conn = c /\ pc[c] # NilPc)
         => /\ call'.res = "ok"
            /\ call'.closes = 1
            /\ GetAllLocalCandidates(c)' = <<>>
            /\ pc'[c] = NilPc]_vars

\* Destroy has returned after Close reported an error, on an object that had
\* candidates: the list is empty and the handle nil.
C12_Witness ==
  /\ call.op = "Destroy" /\ call.closeErr /\ call.res = "ok"
  /\ call.had > 0
  /\ candidates[call.conn] = <<>>
  /\ pc[call.conn] = NilPc

\* ---------------------------------------------------------------------
\* The elements of a sequence, and whether one sequence begins another.
Range(s) == {s[i] : i \in 1 .. Len(s)}
IsPrefix(s, u) == Len(s) <= Len(u) /\ \A i \in 1 .. Len(s) : s[i] = u[i]

\* C13: with threads adding candidates to an object and reading them
\* concurrently (no Destroy), no append is lost or torn (the list holds each
\* appended candidate once, in the order appended), a snapshot holds every
\* candidate whose AddLocalCandidate call had returned when the
\* GetAllLocalCandidates call started, and every snapshot is a prefix of
\* every later one.
C13_CandidatesConsistent ==
  \A c \in Shared :
    /\ Len(candidates[c]) = hist.appended
    /\ Cardinality(Range(candidates[c])) = Len(candidates[c])
    /\ hist.returned \subseteq Range(candidates[c])
    /\ \A i \in 1 .. Len(hist.snaps) :
         /\ hist.snaps[i].mustSee \subseteq Range(hist.snaps[i].snap)
         /\ IsPrefix(hist.snaps[i].snap, candidates[c])
         /\ \A j \in i .. Len(hist.snaps) :
              IsPrefix(hist.snaps[i].snap, hist.snaps[j].snap)

\* Two snapshots were taken, the second longer than the first and holding a
\* candidate whose call returned before the second one's call started, and
\* two adds have returned.
C13_Witness ==
  /\ Len(hist.snaps) = 2
  /\ Len(hist.snaps[1].snap) < Len(hist.snaps[2].snap)
  /\ hist.snaps[2].mustSee # {}
  /\ Cardinality(hist.returned) = 2

\* ---------------------------------------------------------------------
\* The send operation of each channel.
SendOp(ch) ==
  CASE ch = "meta" -> "SendMetaMessage"
    [] ch = "frame" -> "SendFrameBytes"
    [] ch = "control" -> "SendControlBytes"

\* C14: for each of the three channels, the send operation called while the
\* channel is nil returns without an error, sends nothing to the transport
\* and changes nothing of the object.
C14_NilChannelSend ==
  [][\A c \in Conns, ch \in ChannelNames :
       (call'.op = SendOp(ch) /\ call'.conn = c /\ channels[c][ch] = NilChannel)
         => /\ call'.res = "nil"
            /\ call'.sends = 0
            /\ pc' = pc /\ candidates' = candidates /\ channels' = channels]_vars

\* A send on a nil channel has returned nil while the object is attached and
\* another of its channels is negotiated.
C14_Witness ==
  /\ call.op \in {SendOp(ch) : ch \in ChannelNames}
  /\ call.res = "nil" /\ call.sends = 0
  /\ channels[call.conn][call.chan] = NilChannel
  /\ \E ch \in ChannelNames : channels[call.conn][ch] # NilChannel
  /\ pc[call.conn] = "connected"

\* ---------------------------------------------------------------------
\* C15 as stated, for the first send after the Destroy: once Destroy has
\* closed the handle of an object whose channel was negotiated, a send on
\* that channel takes the nil-channel path: it returns nil and nothing is
\* forwarded to the transport.
C15_Original ==
  [][\A c \in Conns, ch \in ChannelNames :
       (/\ call.op = "Destroy" /\ call.conn = c /\ call.res = "ok"
        /\ ch \in call.negotiated
        /\ call'.op = SendOp(ch) /\ call'.conn = c)
         => (call'.res = "nil" /\ call'.sends = 0)]_vars

\* ---------------------------------------------------------------------
\* A step in which thread t carries out the insert of its Add.
Inserts(t) == at[t] = "Add_insert" /\ at'[t] = "Add_ret"

\* C16 as stated: whatever the interleaving of concurrent Add calls, the
\* capacity check and the insert of one Add are not separated by another
\* Add's insert: a non-privileged Add on an identifier without an entry
\* never inserts into a registry that holds the limit already, so the count
\* never exceeds the limit through such inserts.
C16_Original ==
  [][\A t \in Threads :
       (Inserts(t) /\ ~local[t].car /\ rtcMap[local[t].id] = Nil)
         => MapLen < Limit]_vars

\* The same for the locked variant alone (holds).
C16_Locked ==
  [][\A t \in Threads :
       (impl = "locked" /\ Inserts(t) /\ ~local[t].car /\ rtcMap[local[t].id] = Nil)
         => MapLen < Limit]_vars

\* ---------------------------------------------------------------------
\* Whether thread t holds the registry lock as a writer: it is past the
\* Lock() of its Add or Remove and has not returned.
HoldsWrite(t) ==
  /\ impl = "locked"
  /\ \/ at[t] \in {"Add_cap", "Add_exist", "Add_state", "Add_remove", "Add_removed",
                     "Add_insert", "Add_ret", "Remove_check", "Remove_delete",
                     "Remove_ret"}
     \/ at[t] = "Remove_lock" /\ local[t].rret # "idle"

\* No writer holds the lock together with another writer or a reader.
WriterExcludes ==
  \A t, u \in Threads :
    (t # u /\ HoldsWrite(t)) => (~HoldsWrite(u) /\ u \notin readers)

\* What a returning Get or GetAllIds returns is what the registry held at
\* some instant of the call, every Add and Remove taking effect at once.
ReadsOneInstant ==
  \A t \in Threads :
    /\ (at[t] = "Get_ret" /\ at'[t] = "idle") => local[t].res \in hist.window[t]
    /\ (at[t] = "Ids_ret" /\ at'[t] = "idle")
         => (local[t].res \cap ThreadIds) \in hist.window[t]

\* C17 as stated: whatever the interleaving of concurrent Add, Remove, Get
\* and GetAllIds calls, a writer never holds the registry lock together with
\* another writer or a reader, and every Get and GetAllIds returns the
\* registry's content at one instant of the call, never a map that an Add
\* has updated in part.
C17_Original == []WriterExcludes /\ [][ReadsOneInstant]_vars

\* The same for the locked variant alone (holds).
C17_Locked ==
  /\ []WriterExcludes
  /\ [][impl = "locked" => ReadsOneInstant]_vars

\* ---------------------------------------------------------------------
\* Whether thread t is inside a call (a thread that has panicked, or whose
\* process the runtime has ended, is not).
InCall(t) == at[t] \notin {"idle", "panic", "fatal"}

\* C18 as stated: on the lock-guarded registry, under fair scheduling, every
\* call of Add, Remove, Get and GetAllIds returns: a thread inside a call is
\* outside it again later.
C18_Original ==
  \A t \in Threads : (impl = "locked" /\ InCall(t)) ~> ~InCall(t)

\* ---------------------------------------------------------------------
\* C19 as stated: with threads calling Destroy concurrently on one attached
\* object, Close is called on the handle at most once and no thread calls a
\* method on a nil handle.
C19_Original == hist.closes <= 1 /\ hist.nilCalls = 0

\* The two halves of C19 on their own (both fail).
C19_CloseOnce == hist.closes <= 1
C19_NoNilCall == hist.nilCalls = 0

\* ---------------------------------------------------------------------
\* C20 as stated, for the calls that pass the capacity check: Add on an
\* identifier whose entry's handle is nil (never attached, or destroyed and
\* not removed) returns a result, success or one of the errors, and does not
\* fault on the nil handle.
C20_Original ==
  [][(IsAdd /\ PassesCapacity /\ Existing # Nil /\ PcOf(Existing) = NilPc)
       => call'.res \in {"ok", "DuplicateConnection", "CapacityExceeded", "NotFound"}]_vars
====
